---------------------------- MODULE Spec2Model ----------------------------
(***************************************************************************)
(* Andaman Islands trip planner: the itinerary generator                   *)
(* (generateItineraryDays), the catalog load, the day editing helpers and  *)
(* the derived cost model with its useMemo hooks, of src/src/App.jsx, and  *)
(* the mood inference (inferMoods) of src/unnamed/part_002.                *)
(*                                                                         *)
(* JavaScript arrays are 0-based; the handlers below take the 0-based      *)
(* index the source takes and convert to the 1-based TLA+ sequences.       *)
(* The scheduler is given durations of whole hours; mood inference is also *)
(* given durations of n and a half hours. A duration that is not a finite  *)
(* number is kept as a tagged value, because the source treats it in two   *)
(* different ways (Number.isFinite against ??).                            *)
(***************************************************************************)
EXTENDS Integers, Sequences, FiniteSets, TLC

VARIABLES
  dataStatus,      \* "loading" | "ready" | "error"
  fetches,         \* the three fetch promises of the load effect
  bodies,          \* the three res.json() promises of the load effect
  mounted,         \* FALSE once a render has thrown
  locations,       \* the location catalog
  activities,      \* the activity catalog
  selectedIds,     \* ids of the selected locations
  startPB,         \* "Start from Port Blair if present"
  days,            \* the itinerary
  adults,
  infants,
  chosenHotels,    \* island -> hotel id
  essentials,      \* ferryClass and cabModelId
  scooterIslands,  \* islands opted into scooters
  addonIds,        \* selected activity ids, in the order they were added
  memo,            \* the values the useMemo hooks hold: those of the cost model,
                   \* and in MoodSpec those of the selection list
  edits,           \* manual edits of the itinerary since it was regenerated
  priced,          \* pricing events so far
  discarded        \* history: the last step regenerated an edited itinerary

loadVars == <<fetches, bodies>>

catalogVars == <<locations, activities>>

tripVars == <<selectedIds, startPB>>

priceVars == <<adults, infants, chosenHotels, essentials, scooterIslands, addonIds>>

vars == <<dataStatus, loadVars, mounted, catalogVars, tripVars, days, priceVars,
          memo, edits, priced, discarded>>

(***************************************************************************)
(* Bounds of the model                                                     *)
(***************************************************************************)
\* longest selection handed to the scheduler in SchedSpec
MaxSel == 5
\* manual edits of the itinerary between two regenerations, pricing events
\* included, in Spec
MaxEdits == 2
\* longest itinerary the manual edits may build in Spec
MaxDays == 8

(***************************************************************************)
(* Static constants                                                        *)
(***************************************************************************)
HUB == "Port Blair"

\* the canonical list with the hub in second place
DEFAULT_ISLANDS_HubSecond == <<"Havelock", "Port Blair", "Neil", "Long Island", "Diglipur">>

DEFAULT_ISLANDS == <<"Port Blair", "Havelock", "Neil", "Long Island", "Diglipur">>

SCOOTER_FRIENDLY == {"Havelock", "Neil"}

DAY_BUDGET_HRS == 7

MAX_STOPS == 4

DEFAULT_DURATION == 2

FERRY_BASE_ECON == 1500

\* FERRY_CLASS_MULT in tenths: { Economy: 1, Deluxe: 1.4, Luxury: 1.9 }
FERRY_CLASS_MULT == [Economy |-> 10, Deluxe |-> 14, Luxury |-> 19]

CAB_MODELS == <<[id |-> "sedan", dayRate |-> 2500],
                [id |-> "suv", dayRate |-> 3200],
                [id |-> "innova", dayRate |-> 3800],
                [id |-> "traveller", dayRate |-> 5200]>>

P2P_RATE_PER_HOP == 500

SCOOTER_DAY_RATE == 800

\* the em dash of the source is written "-", its arrow "->"
TRANSPORT_MODES == {"Point-to-Point", "Day Cab", "Scooter", "-"}

(***************************************************************************)
(* Values of JavaScript                                                    *)
(***************************************************************************)
\* a durationHrs that is a finite number
Num(n) == [kind |-> "num", val |-> n]

\* a durationHrs that is missing (undefined or null)
Nullish == [kind |-> "null", val |-> 0]

\* a durationHrs that is NaN
NotANumber == [kind |-> "nan", val |-> 0]

\* Number.isFinite(d) ? d : 2
FiniteOr2(d) == IF d.kind = "num" THEN d.val ELSE DEFAULT_DURATION

\* d ?? 2
NullishOr2(d) == IF d.kind = "null" THEN Num(DEFAULT_DURATION) ELSE d

\* Array.prototype.indexOf, 0-based, -1 when absent
IndexOf(seq, x) ==
  IF \E i \in 1..Len(seq) : seq[i] = x
  THEN (CHOOSE i \in 1..Len(seq) : seq[i] = x /\ \A j \in 1..(i - 1) : seq[j] # x) - 1
  ELSE -1

Max(a, b) == IF a >= b THEN a ELSE b

RECURSIVE InsertByKey(_, _, _)
\* x placed after every element whose key is <= its own: one step of a stable
\* sort; key is the function from the elements to their sort keys
InsertByKey(sorted, x, key) ==
  IF sorted = <<>> THEN <<x>>
  ELSE IF key[Head(sorted)] <= key[x]
       THEN <<Head(sorted)>> \o InsertByKey(Tail(sorted), x, key)
       ELSE <<x>> \o sorted

RECURSIVE StableSort(_, _)
\* Array.prototype.sort((a, b) => key[a] - key[b]), which is stable
StableSort(seq, key) ==
  IF seq = <<>> THEN <<>>
  ELSE InsertByKey(StableSort(SubSeq(seq, 1, Len(seq) - 1), key), seq[Len(seq)], key)

Range(seq) == {seq[i] : i \in 1..Len(seq)}

RECURSIVE Distinct(_)
\* the elements of seq in the order of their first occurrence
Distinct(seq) ==
  IF seq = <<>> THEN <<>>
  ELSE LET init == Distinct(SubSeq(seq, 1, Len(seq) - 1))
           x == seq[Len(seq)]
       IN IF \E i \in 1..Len(init) : init[i] = x THEN init ELSE Append(init, x)

(***************************************************************************)
(* The itinerary generator                                                 *)
(***************************************************************************)
\* bestTimes holds lower-case keywords; the source tests each entry for the
\* keyword as a substring
rank(it) ==
  IF \E i \in 1..Len(it.bestTimes) : it.bestTimes[i] \in {"morning", "sunrise"} THEN 0
  ELSE IF \E i \in 1..Len(it.bestTimes) : it.bestTimes[i] = "afternoon" THEN 1
  ELSE IF \E i \in 1..Len(it.bestTimes) : it.bestTimes[i] \in {"evening", "sunset"} THEN 2
  ELSE 3

orderByBestTime(items) == StableSort(items, [it \in Range(items) |-> rank(it)])

\* the arrival day without its airport transfer
ArrivalDayNoTransfer ==
  [island |-> HUB,
   items |-> <<[type |-> "arrival", name |-> "Arrival - Veer Savarkar Intl. Airport (IXZ)"]>>,
   transport |-> "Point-to-Point"]

ArrivalDay ==
  [island |-> HUB,
   items |-> <<[type |-> "arrival", name |-> "Arrival - Veer Savarkar Intl. Airport (IXZ)"],
               [type |-> "transfer", name |-> "Airport -> Hotel (Port Blair)"]>>,
   transport |-> "Point-to-Point"]

\* the keys of byIsland, in insertion order
byIslandKeys(selectedLocs) == Distinct([i \in 1..Len(selectedLocs) |-> selectedLocs[i].island])

\* byIsland[island]
byIsland(selectedLocs, island) == SelectSeq(selectedLocs, LAMBDA l : l.island = island)

canonicalIndex(island) == IndexOf(DEFAULT_ISLANDS, island)

\* the keys of byIsland as they come, without the sort
islandOrderUnsorted(selectedLocs, startFromPB) ==
  LET order == byIslandKeys(selectedLocs)
  IN IF startFromPB /\ (\E i \in 1..Len(order) : order[i] = HUB)
     THEN <<HUB>> \o SelectSeq(order, LAMBDA x : x # HUB)
     ELSE order

islandOrder(selectedLocs, startFromPB) ==
  LET keys == byIslandKeys(selectedLocs)
      order == StableSort(keys, [a \in Range(keys) |-> canonicalIndex(a)])
  IN IF startFromPB /\ (\E i \in 1..Len(order) : order[i] = HUB)
     THEN <<HUB>> \o SelectSeq(order, LAMBDA x : x # HUB)
     ELSE order

locationItem(x) ==
  [type |-> "location", ref |-> x.id, name |-> x.name,
   durationHrs |-> NullishOr2(x.durationHrs), bestTimes |-> x.bestTimes]

\* the scooter-friendly islands tested before the number of stops
dayTransportScooterFirst(island, dayBucket) ==
  IF island \in SCOOTER_FRIENDLY THEN "Scooter"
  ELSE IF Len(dayBucket) >= 3 THEN "Day Cab"
  ELSE "Point-to-Point"

dayTransport(island, dayBucket) ==
  IF Len(dayBucket) >= 3 THEN "Day Cab"
  ELSE IF island \in SCOOTER_FRIENDLY THEN "Scooter"
  ELSE "Point-to-Point"

\* flushDay reading the next location of the queue without removing it
flushDayPeeks(st, island) ==
  IF st.dayBucket = <<>> THEN st
  ELSE LET pull == Len(st.dayBucket) = 1 /\ st.locs # <<>>
           bucket == IF pull THEN Append(st.dayBucket, Head(st.locs)) ELSE st.dayBucket
       IN [locs |-> st.locs,
           dayBucket |-> <<>>,
           timeUsed |-> 0,
           days |-> Append(st.days,
                           [island |-> island,
                            items |-> [i \in 1..Len(bucket) |-> locationItem(bucket[i])],
                            transport |-> dayTransport(island, bucket)]),
           pulled |-> Append(st.pulled, pull)]

\* The closure state of one island's loop: the queue locs, the bucket, the
\* time used, the days emitted so far, and (a history value, not in the
\* source) for each emitted day whether flushDay pulled an extra stop into it.
flushDay(st, island) ==
  IF st.dayBucket = <<>> THEN st
  ELSE LET pull == Len(st.dayBucket) = 1 /\ st.locs # <<>>
           bucket == IF pull THEN Append(st.dayBucket, Head(st.locs)) ELSE st.dayBucket
       IN [locs |-> IF pull THEN Tail(st.locs) ELSE st.locs,
           dayBucket |-> <<>>,
           timeUsed |-> 0,
           days |-> Append(st.days,
                           [island |-> island,
                            items |-> [i \in 1..Len(bucket) |-> locationItem(bucket[i])],
                            transport |-> dayTransport(island, bucket)]),
           pulled |-> Append(st.pulled, pull)]

\* a budget of 8 hours instead of 7
overBudgetEightHours(bucketLen, wouldBe) == bucketLen >= MAX_STOPS \/ wouldBe > 8

\* a cap of 5 stops instead of 4
overBudgetFiveStops(bucketLen, wouldBe) == bucketLen >= 5 \/ wouldBe > DAY_BUDGET_HRS

\* dayBucket.length >= 4 || wouldBe > 7
overBudget(bucketLen, wouldBe) == bucketLen >= MAX_STOPS \/ wouldBe > DAY_BUDGET_HRS

RECURSIVE packIsland(_, _)
\* while (locs.length) { ... } flushDay();
packIsland(st, island) ==
  IF st.locs = <<>> THEN flushDay(st, island)
  ELSE LET x == Head(st.locs)
           shifted == [st EXCEPT !.locs = Tail(st.locs)]
           dur == FiniteOr2(x.durationHrs)
           wouldBe == st.timeUsed + dur
           s2 == IF overBudget(Len(st.dayBucket), wouldBe)
                 THEN flushDay(shifted, island)
                 ELSE shifted
       IN packIsland([s2 EXCEPT !.dayBucket = Append(s2.dayBucket, x),
                                !.timeUsed = s2.timeUsed + dur], island)

ferryDayAfter(island, nextIsland) ==
  [island |-> island,
   items |-> <<[type |-> "ferry", name |-> <<"Ferry", island, "->", nextIsland>>,
                time |-> "08:00-09:30"]>>,
   transport |-> "-"]

RECURSIVE scheduleIslands(_, _, _, _, _)
\* order.forEach((island, idx) => { ... }), from the 1-based position idx on
scheduleIslands(selectedLocs, order, idx, daysSoFar, pulledSoFar) ==
  IF idx > Len(order) THEN [days |-> daysSoFar, pulled |-> pulledSoFar]
  ELSE LET island == order[idx]
           st == packIsland([locs |-> orderByBestTime(byIsland(selectedLocs, island)),
                             dayBucket |-> <<>>, timeUsed |-> 0,
                             days |-> daysSoFar, pulled |-> pulledSoFar], island)
       IN IF idx < Len(order)
          THEN scheduleIslands(selectedLocs, order, idx + 1,
                               Append(st.days, ferryDayAfter(island, order[idx + 1])),
                               Append(st.pulled, FALSE))
          ELSE scheduleIslands(selectedLocs, order, idx + 1, st.days, st.pulled)

\* generateItineraryDays together with the history of flushDay's pulls
scheduleTrace(selectedLocs, startFromPB) ==
  IF Len(selectedLocs) = 0 THEN [days |-> <<ArrivalDay>>, pulled |-> <<FALSE>>]
  ELSE scheduleIslands(selectedLocs, islandOrder(selectedLocs, startFromPB), 1,
                       <<ArrivalDay>>, <<FALSE>>)

generateItineraryDays(selectedLocs, startFromPB) == scheduleTrace(selectedLocs, startFromPB).days

(***************************************************************************)
(* The cost model                                                          *)
(***************************************************************************)
hasItem(day, type) == \E i \in 1..Len(day.items) : day.items[i].type = type

countItems(day, type) == Cardinality({i \in 1..Len(day.items) : day.items[i].type = type})

RECURSIVE SumOver(_, _)
\* the sum of f[x] over the finite set S
SumOver(S, f) ==
  IF S = {} THEN 0
  ELSE LET x == CHOOSE y \in S : TRUE IN f[x] + SumOver(S \ {x}, f)

\* the island -> nights map; an island with no such day has no key
nightsByIsland(ds) ==
  LET nightDays == {i \in 1..Len(ds) : ~hasItem(ds[i], "ferry") /\ ~hasItem(ds[i], "departure")}
  IN [isl \in {ds[i].island : i \in nightDays} |->
        Cardinality({i \in nightDays : ds[i].island = isl})]

MOCK_HOTELS ==
  [x \in {"Port Blair", "Havelock", "Neil", "Long Island", "Diglipur"} |->
     CASE x = "Port Blair" -> <<[id |-> "pb_h1", sell_price |-> 3299],
                                [id |-> "pb_h2", sell_price |-> 5499],
                                [id |-> "pb_h3", sell_price |-> 8899]>>
       [] x = "Havelock" -> <<[id |-> "hl_h1", sell_price |-> 4499],
                              [id |-> "hl_h2", sell_price |-> 6999],
                              [id |-> "hl_h3", sell_price |-> 10999]>>
       [] x = "Neil" -> <<[id |-> "nl_h1", sell_price |-> 3399],
                          [id |-> "nl_h2", sell_price |-> 5699]>>
       [] x = "Long Island" -> <<[id |-> "li_h1", sell_price |-> 6199]>>
       [] x = "Diglipur" -> <<[id |-> "dg_h1", sell_price |-> 2899]>>]

\* chosen is the chosenHotels object: a function from the islands that have
\* a chosen hotel to the hotel id
hotelsTotal(ds, chosen) ==
  LET nights == nightsByIsland(ds)
      charge == [isl \in DOMAIN nights |->
                   IF isl \notin DOMAIN chosen THEN 0
                   ELSE IF isl \notin DOMAIN MOCK_HOTELS THEN 0
                   ELSE LET hs == MOCK_HOTELS[isl]
                            found == {k \in 1..Len(hs) : hs[k].id = chosen[isl]}
                        IN IF found = {} THEN 0
                           ELSE hs[CHOOSE k \in found : \A j \in found : k <= j].sell_price
                                  * nights[isl]]
  IN SumOver(DOMAIN nights, charge)

\* Number(ad?.basePriceINR ?? ad?.price ?? 0), and 0 when that is not finite
activityPrice(ad) ==
  LET raw == IF ad.basePriceINR # Nullish THEN ad.basePriceINR
             ELSE IF ad.price # Nullish THEN ad.price
             ELSE Num(0)
  IN IF raw.kind = "num" THEN raw.val ELSE 0

RECURSIVE addonsTotal(_, _)
\* addonIds.reduce(...) over the activity catalog acts
addonsTotal(ids, acts) ==
  IF ids = <<>> THEN 0
  ELSE LET id == ids[Len(ids)]
           found == {k \in 1..Len(acts) : acts[k].id = id}
           price == IF found = {} THEN 0
                    ELSE activityPrice(acts[CHOOSE k \in found : \A j \in found : k <= j])
       IN addonsTotal(SubSeq(ids, 1, Len(ids) - 1), acts) + price

ferryLegCount(ds) ==
  SumOver(1..Len(ds), [i \in 1..Len(ds) |-> countItems(ds[i], "ferry")])

\* a fare multiplied by the adult count as entered
ferryTotalNoMinimum(ds, ferryClass, nAdults) ==
  (ferryLegCount(ds) * FERRY_BASE_ECON * FERRY_CLASS_MULT[ferryClass] * nAdults) \div 10

\* the multiplier is kept in tenths; 1500 * tenths is a multiple of 10
ferryTotal(ds, ferryClass, nAdults) ==
  (ferryLegCount(ds) * FERRY_BASE_ECON * FERRY_CLASS_MULT[ferryClass] * Max(1, nAdults)) \div 10

cabDayRate(cabModelId) ==
  LET found == {k \in 1..Len(CAB_MODELS) : CAB_MODELS[k].id = cabModelId}
  IN IF found = {} THEN CAB_MODELS[1].dayRate
     ELSE CAB_MODELS[CHOOSE k \in found : TRUE].dayRate

\* Point-to-Point charged per stop, without the one-hop minimum
dayGroundChargeNoMinimum(day, scooters, cabModelId) ==
  IF hasItem(day, "ferry") \/ hasItem(day, "departure") THEN 0
  ELSE IF day.island \in scooters THEN SCOOTER_DAY_RATE
  ELSE IF day.transport = "Day Cab" THEN cabDayRate(cabModelId)
  ELSE IF day.transport = "Scooter" THEN SCOOTER_DAY_RATE
  ELSE countItems(day, "location") * P2P_RATE_PER_HOP

\* the day's own Day Cab choice tested before the island's scooter opt-in
dayGroundChargeCabFirst(day, scooters, cabModelId) ==
  IF hasItem(day, "ferry") \/ hasItem(day, "departure") THEN 0
  ELSE IF day.transport = "Day Cab" THEN cabDayRate(cabModelId)
  ELSE IF day.island \in scooters THEN SCOOTER_DAY_RATE
  ELSE IF day.transport = "Scooter" THEN SCOOTER_DAY_RATE
  ELSE Max(1, countItems(day, "location") - 1) * P2P_RATE_PER_HOP

\* the body of days.forEach in logisticsTotal: what one day adds to the sum
dayGroundCharge(day, scooters, cabModelId) ==
  IF hasItem(day, "ferry") \/ hasItem(day, "departure") THEN 0
  ELSE IF day.island \in scooters THEN SCOOTER_DAY_RATE
  ELSE IF day.transport = "Day Cab" THEN cabDayRate(cabModelId)
  ELSE IF day.transport = "Scooter" THEN SCOOTER_DAY_RATE
  ELSE Max(1, countItems(day, "location") - 1) * P2P_RATE_PER_HOP

logisticsTotal(ds, scooters, cabModelId) ==
  SumOver(1..Len(ds), [i \in 1..Len(ds) |-> dayGroundCharge(ds[i], scooters, cabModelId)])

grandTotal(ds, chosen, ids, acts, ferryClass, nAdults, scooters, cabModelId) ==
  hotelsTotal(ds, chosen) + addonsTotal(ids, acts)
    + logisticsTotal(ds, scooters, cabModelId) + ferryTotal(ds, ferryClass, nAdults)

(***************************************************************************)
(* The useMemo hooks of the cost model                                     *)
(***************************************************************************)
\* the state the cost hooks read
costInputs ==
  [days |-> days, chosenHotels |-> chosenHotels, addonIds |-> addonIds,
   activities |-> activities, ferryClass |-> essentials.ferryClass,
   cabModelId |-> essentials.cabModelId, adults |-> adults,
   scooterIslands |-> scooterIslands]

\* useMemo(() => fresh, deps): the cached value unless a dependency changed
useMemo(depsChanged, cached, fresh) == IF depsChanged THEN fresh ELSE cached

\* the first render computes every hook
mount(inp) ==
  [nightsByIsland |-> nightsByIsland(inp.days),
   hotelsTotal |-> hotelsTotal(inp.days, inp.chosenHotels),
   addonsTotal |-> addonsTotal(inp.addonIds, inp.activities),
   ferryLegCount |-> ferryLegCount(inp.days),
   ferryTotal |-> ferryTotal(inp.days, inp.ferryClass, inp.adults),
   cabDayRate |-> cabDayRate(inp.cabModelId),
   logisticsTotal |-> logisticsTotal(inp.days, inp.scooterIslands, inp.cabModelId),
   grandTotal |-> grandTotal(inp.days, inp.chosenHotels, inp.addonIds, inp.activities,
                             inp.ferryClass, inp.adults, inp.scooterIslands, inp.cabModelId)]

\* [nightsByIsland, chosenHotels, MOCK_HOTELS]
hotelsTotalDeps(m, nights, old, new) ==
  nights # m.nightsByIsland \/ new.chosenHotels # old.chosenHotels

\* [addonIds, activities]
addonsTotalDeps(old, new) ==
  new.addonIds # old.addonIds \/ new.activities # old.activities

\* a dependency list that leaves out adults
ferryTotalDepsNoAdults(m, legs, old, new) ==
  legs # m.ferryLegCount \/ new.ferryClass # old.ferryClass

\* [ferryLegCount, essentials.ferryClass, adults]
ferryTotalDeps(m, legs, old, new) ==
  legs # m.ferryLegCount \/ new.ferryClass # old.ferryClass \/ new.adults # old.adults

\* [days, scooterIslands, cabDayRate]
logisticsTotalDeps(m, rate, old, new) ==
  new.days # old.days \/ new.scooterIslands # old.scooterIslands \/ rate # m.cabDayRate

\* a render after the first: m holds the hooks' values of the previous
\* render, old and new the state they read then and now
render(m, old, new) ==
  LET nights == useMemo(new.days # old.days, m.nightsByIsland, nightsByIsland(new.days))
      hotels == useMemo(hotelsTotalDeps(m, nights, old, new), m.hotelsTotal,
                        hotelsTotal(new.days, new.chosenHotels))
      addons == useMemo(addonsTotalDeps(old, new), m.addonsTotal,
                        addonsTotal(new.addonIds, new.activities))
      legs == useMemo(new.days # old.days, m.ferryLegCount, ferryLegCount(new.days))
      ferry == useMemo(ferryTotalDeps(m, legs, old, new), m.ferryTotal,
                       ferryTotal(new.days, new.ferryClass, new.adults))
      rate == useMemo(new.cabModelId # old.cabModelId, m.cabDayRate,
                      cabDayRate(new.cabModelId))
      logistics == useMemo(logisticsTotalDeps(m, rate, old, new), m.logisticsTotal,
                           logisticsTotal(new.days, new.scooterIslands, new.cabModelId))
  IN [nightsByIsland |-> nights,
      hotelsTotal |-> hotels,
      addonsTotal |-> addons,
      ferryLegCount |-> legs,
      ferryTotal |-> ferry,
      cabDayRate |-> rate,
      logisticsTotal |-> logistics,
      grandTotal |-> hotels + addons + logistics + ferry]

\* an add-on button that appends whether or not the id is selected
toggleAddonAlwaysAppends(prev, id, on) == Append(prev, id)

\* setAddonIds((prev) => (on ? prev.filter((x) => x !== id) : [...prev, id]))
toggleAddon(prev, id, on) ==
  IF on THEN SelectSeq(prev, LAMBDA x : x # id) ELSE Append(prev, id)

\* setChosenHotels((p) => ({ ...p, [island]: hotelId }))
chooseHotel(p, island, hotelId) ==
  [isl \in DOMAIN p \cup {island} |-> IF isl = island THEN hotelId ELSE p[isl]]

\* const next = new Set(scooterIslands); next.has(isl) ? delete : add
toggleScooter(scooters, isl) ==
  IF isl \in scooters THEN scooters \ {isl} ELSE scooters \cup {isl}

(***************************************************************************)
(* Day editing helpers                                                     *)
(***************************************************************************)
Min(a, b) == IF a <= b THEN a ELSE b

\* the start position Array.prototype.splice uses for a 0-based start
spliceStart(len, start) == IF start < 0 THEN Max(len + start, 0) ELSE Min(start, len)

\* copy.splice(start, 0, x)
spliceInsert(seq, start, x) ==
  LET at == spliceStart(Len(seq), start)
  IN SubSeq(seq, 1, at) \o <<x>> \o SubSeq(seq, at + 1, Len(seq))

\* copy.splice(start, 1)
spliceDelete(seq, start) ==
  LET at == spliceStart(Len(seq), start)
  IN SubSeq(seq, 1, at) \o SubSeq(seq, at + 2, Len(seq))

addEmptyDayAfter(ds, index) ==
  spliceInsert(ds, index + 1,
               [island |-> IF index >= 0 /\ index < Len(ds) THEN ds[index + 1].island ELSE HUB,
                items |-> <<>>,
                transport |-> "Point-to-Point"])

deleteDay(ds, index) == spliceDelete(ds, index)

\* the value undefined, where an item or a day is expected
Undefined == [type |-> "undefined"]

\* the outcome of a helper that throws TypeError before it calls setDays
TypeError == <<[threw |-> "TypeError"]>>

\* const [item] = items.splice(itemIdx, 1): undefined when nothing is removed
spliced(items, itemIdx) ==
  LET at == spliceStart(Len(items), itemIdx)
  IN IF at < Len(items) THEN items[at + 1] ELSE Undefined

\* the moved item put first in the target day instead of last
moveItemToFront(ds, fromDay, itemIdx, dir) ==
  LET toDay == fromDay + dir
  IN IF toDay < 0 \/ toDay >= Len(ds) THEN ds
     ELSE IF fromDay < 0 \/ fromDay >= Len(ds) THEN TypeError
     ELSE LET item == spliced(ds[fromDay + 1].items, itemIdx)
          IN [ds EXCEPT ![fromDay + 1].items = spliceDelete(@, itemIdx),
                        ![toDay + 1].items = <<item>> \o @]

\* copy[fromDay] is undefined for a fromDay that is no index of the list, and
\* reading its items throws
moveItem(ds, fromDay, itemIdx, dir) ==
  LET toDay == fromDay + dir
  IN IF toDay < 0 \/ toDay >= Len(ds) THEN ds
     ELSE IF fromDay < 0 \/ fromDay >= Len(ds) THEN TypeError
     ELSE LET item == spliced(ds[fromDay + 1].items, itemIdx)
          IN [ds EXCEPT ![fromDay + 1].items = spliceDelete(@, itemIdx),
                        ![toDay + 1].items = Append(@, item)]

\* copy[i] = {...copy[i], transport: mode}: for i >= length the list grows to
\* i + 1 elements, the new last one holding nothing but the transport; for a
\* negative i the assignment makes a property that is no element of the list
setTransportForDay(ds, i, mode) ==
  IF i >= 0 /\ i < Len(ds) THEN [ds EXCEPT ![i + 1].transport = mode]
  ELSE IF i < 0 THEN ds
  ELSE [k \in 1..(i + 1) |->
          IF k <= Len(ds) THEN ds[k]
          ELSE IF k = i + 1 THEN [transport |-> mode]
          ELSE Undefined]

(***************************************************************************)
(* State                                                                   *)
(***************************************************************************)
\* locations.filter((l) => selectedIds.includes(l.id))
selectedLocs == SelectSeq(locations, LAMBDA l : l.id \in selectedIds)

\* The kinds of location record the catalog is drawn from.
LocKinds ==
  { [island |-> "Port Blair", name |-> "Corbyn's Cove", durationHrs |-> Num(1), bestTimes |-> <<"afternoon">>],
    [island |-> "Port Blair", name |-> "Cellular Jail", durationHrs |-> Num(3), bestTimes |-> <<"morning">>],
    [island |-> "Havelock", name |-> "Radhanagar Beach", durationHrs |-> Num(2), bestTimes |-> <<"afternoon">>],
    [island |-> "Havelock", name |-> "Elephant Beach", durationHrs |-> Num(4), bestTimes |-> <<>>],
    [island |-> "Havelock", name |-> "Kalapathar Trek", durationHrs |-> Num(8), bestTimes |-> <<"sunset", "sunrise">>],
    [island |-> "Neil", name |-> "Natural Bridge", durationHrs |-> Nullish, bestTimes |-> <<"evening">>],
    [island |-> "Barren Island", name |-> "Volcano View", durationHrs |-> NotANumber, bestTimes |-> <<>>],
    [island |-> "Ross Island", name |-> "Ross Ruins", durationHrs |-> Num(2), bestTimes |-> <<"morning">>] }

mkLoc(i, k) ==
  [id |-> i, island |-> k.island, name |-> k.name,
   durationHrs |-> k.durationHrs, bestTimes |-> k.bestTimes]

(***************************************************************************)
(* SchedSpec: the generator applied to every selection of up to MaxSel     *)
(* locations, in every catalog order                                       *)
(***************************************************************************)
SchedInit ==
  /\ dataStatus = "ready"
  /\ fetches = <<>>
  /\ bodies = <<>>
  /\ mounted = TRUE
  /\ \E n \in 0..MaxSel : \E f \in [1..n -> LocKinds] :
       /\ locations = [i \in 1..n |-> mkLoc(i, f[i])]
       /\ selectedIds = 1..n
  /\ activities = <<>>
  /\ startPB \in BOOLEAN
  /\ days = <<>>
  /\ adults = 2
  /\ infants = 0
  /\ chosenHotels = <<>>
  /\ essentials = [ferryClass |-> "Deluxe", cabModelId |-> "suv"]
  /\ scooterIslands = {}
  /\ addonIds = <<>>
  /\ memo = mount(costInputs)
  /\ edits = 0
  /\ priced = 0
  /\ discarded = FALSE

\* the effect of App: setDays(generateItineraryDays(selectedLocs, startPB)),
\* and the render that follows
SchedGenerate ==
  /\ days = <<>>
  /\ days' = generateItineraryDays(selectedLocs, startPB)
  /\ UNCHANGED <<dataStatus, loadVars, mounted, catalogVars, tripVars, priceVars,
                 edits, priced, discarded>>
  /\ memo' = render(memo, costInputs, costInputs')

SchedNext == SchedGenerate

SchedSpec == SchedInit /\ [][SchedNext]_vars

(***************************************************************************)
(* Properties of the generator (SchedSpec)                                 *)
(***************************************************************************)
itemTypes(day) == [i \in 1..Len(day.items) |-> day.items[i].type]

isArrivalDay(day) == day.island = HUB /\ itemTypes(day) = <<"arrival", "transfer">>

isDepartureDay(day) == day.island = HUB /\ itemTypes(day) = <<"transfer", "departure">>

isFerryDay(day) == hasItem(day, "ferry")

isFerryOnlyDay(day) ==
  day.items # <<>> /\ \A i \in 1..Len(day.items) : day.items[i].type = "ferry"

isFerryFromTo(day, from, to) ==
  /\ Len(day.items) = 1
  /\ day.items[1].type = "ferry"
  /\ day.items[1].name = <<"Ferry", from, "->", to>>

isVisitDay(day) ==
  day.items # <<>> /\ \A i \in 1..Len(day.items) : day.items[i].type = "location"

stopCount(day) == countItems(day, "location")

\* the sum of the durations recorded on the location items of a day
stopHours(day) ==
  SumOver({i \in 1..Len(day.items) : day.items[i].type = "location"},
          [i \in 1..Len(day.items) |->
             IF day.items[i].type = "location" /\ day.items[i].durationHrs.kind = "num"
             THEN day.items[i].durationHrs.val ELSE 0])

scheduled == days # <<>>

\* the island the generator visits last; the hub when nothing is selected
lastVisitedIsland ==
  IF selectedLocs = <<>> THEN HUB
  ELSE LET order == islandOrder(selectedLocs, startPB) IN order[Len(order)]

\* C1: whatever the selection and the start-at-hub flag, the first day of the
\* generated itinerary is the arrival day at Port Blair, whose items are
\* exactly an arrival item followed by an airport-to-hotel transfer item.
C1_FirstDayIsArrival ==
  scheduled =>
    /\ days[1].island = "Port Blair"
    /\ Len(days[1].items) = 2
    /\ days[1].items[1].type = "arrival"
    /\ days[1].items[2].type = "transfer"
    /\ days[1].items[2].name = "Airport -> Hotel (Port Blair)"

\* a selection whose first visited island is not the hub has been scheduled
C1_Witness ==
  /\ scheduled
  /\ ~startPB
  /\ Len(days) >= 4
  /\ days[2].island # "Port Blair"

\* C2: the last day of the generated itinerary is the departure day at the hub
\* (transfer + departure); it is immediately preceded by one ferry day back to
\* the hub when the last visited island is not the hub, and by no ferry day
\* when it is the hub.
C2_LastDayIsDeparture ==
  scheduled =>
    LET n == Len(days) IN
      /\ isDepartureDay(days[n])
      /\ lastVisitedIsland # HUB =>
           /\ n >= 3
           /\ isFerryFromTo(days[n - 1], lastVisitedIsland, HUB)
           /\ ~isFerryDay(days[n - 2])
      /\ lastVisitedIsland = HUB => (n >= 2 /\ ~isFerryDay(days[n - 1]))

\* C3: (a) every island with a selected location has a day that is not a ferry
\* day, and (b) two days that are not ferry days, lie on different islands and
\* have no other non-ferry day between them (the arrival day and the first
\* island's first day included) have exactly one ferry-only day between them.
C3_NoOrphanIslands ==
  scheduled =>
    /\ \A k \in 1..Len(selectedLocs) :
         \E i \in 1..Len(days) : ~isFerryDay(days[i]) /\ days[i].island = selectedLocs[k].island
    /\ \A i, j \in 1..Len(days) :
         ( /\ i < j
           /\ ~isFerryDay(days[i])
           /\ ~isFerryDay(days[j])
           /\ days[i].island # days[j].island
           /\ \A k \in (i + 1)..(j - 1) : isFerryDay(days[k]) )
         => (j = i + 2 /\ isFerryOnlyDay(days[i + 1]))

positiveDurations ==
  \A k \in 1..Len(selectedLocs) :
    selectedLocs[k].durationHrs.kind = "num" /\ selectedLocs[k].durationHrs.val > 0

\* for each generated day, whether flushDay pulled an extra stop into it
pulledDays == scheduleTrace(selectedLocs, startPB).pulled

\* C4 as claimed: with positive durations every generated day has at most 4
\* stops, and every generated day without a lookahead stop has a stop duration
\* sum of at most 7 hours.
C4_DayCapacity ==
  (scheduled /\ positiveDurations) =>
    \A i \in 1..Len(days) :
      /\ stopCount(days[i]) <= 4
      /\ ~pulledDays[i] => stopHours(days[i]) <= 7

\* C4 as amended: with positive durations every generated day has at most 4
\* stops; every generated day without a lookahead stop that holds two or more
\* stops has a stop duration sum of at most 7 hours, and one that holds a
\* single stop exceeds 7 hours only by that location's own duration.
C4_DayCapacityAmended ==
  (scheduled /\ positiveDurations) =>
    \A i \in 1..Len(days) :
      /\ stopCount(days[i]) <= 4
      /\ (~pulledDays[i] /\ stopCount(days[i]) >= 2) => stopHours(days[i]) <= 7
      /\ (~pulledDays[i] /\ stopHours(days[i]) > 7) =>
           /\ stopCount(days[i]) = 1
           /\ \E k \in 1..Len(selectedLocs) :
                /\ selectedLocs[k].id = days[i].items[1].ref
                /\ selectedLocs[k].durationHrs.val > 7

\* a day of two or more stops that uses the whole 7 hours, and a day whose
\* single stop is longer than 7 hours, neither with a lookahead stop
C4_Witness ==
  /\ scheduled
  /\ positiveDurations
  /\ \E i \in 1..Len(days) :
       ~pulledDays[i] /\ stopCount(days[i]) >= 2 /\ stopHours(days[i]) = 7
  /\ \E i \in 1..Len(days) :
       ~pulledDays[i] /\ stopCount(days[i]) = 1 /\ stopHours(days[i]) > 7

\* C5: with an empty selection the generator returns exactly 2 days, the
\* arrival day followed by the departure day.
C5_EmptySelectionTwoDays ==
  (scheduled /\ selectedLocs = <<>>) =>
    /\ Len(days) = 2
    /\ isArrivalDay(days[1])
    /\ isDepartureDay(days[2])

FERRY_CLASSES == {"Economy", "Deluxe", "Luxury"}

CAB_MODEL_IDS == {CAB_MODELS[k].id : k \in 1..Len(CAB_MODELS)}

\* the islands a scooter can be opted into
SCOOTER_CHOICES == SUBSET {"Port Blair", "Havelock", "Neil"}

\* the adult counts the input field can deliver (0 stands for an emptied field)
ADULT_COUNTS == 0..3

\* C6 as claimed: with an empty selection, no hotel and no activity, the grand
\* total computed from the generated itinerary is 0 for every ferry class, cab
\* model, scooter-island set and adult count.
C6_EmptyTripCostsNothing ==
  (scheduled /\ selectedLocs = <<>>) =>
    \A fc \in FERRY_CLASSES, cab \in CAB_MODEL_IDS, sc \in SCOOTER_CHOICES, n \in ADULT_COUNTS :
      grandTotal(days, <<>>, <<>>, <<>>, fc, n, sc, cab) = 0

\* C6 as amended: with an empty selection, no hotel and no activity, the
\* accommodation, transit and activities subtotals are 0 and the grand total
\* is the ground charge of the arrival day: 800 when Port Blair is opted into
\* scooters, otherwise one Point-to-Point hop, 500.
C6_EmptyTripCostsArrivalTransfer ==
  (scheduled /\ selectedLocs = <<>>) =>
    \A fc \in FERRY_CLASSES, cab \in CAB_MODEL_IDS, sc \in SCOOTER_CHOICES, n \in ADULT_COUNTS :
      /\ hotelsTotal(days, <<>>) = 0
      /\ ferryTotal(days, fc, n) = 0
      /\ addonsTotal(<<>>, <<>>) = 0
      /\ grandTotal(days, <<>>, <<>>, <<>>, fc, n, sc, cab)
           = IF "Port Blair" \in sc THEN 800 ELSE 500

\* the empty selection has been scheduled
C6_Witness == scheduled /\ selectedLocs = <<>> /\ ~startPB

\* two locations on the hub that fit one day, one location on another island
twoOnHubOneElsewhere ==
  /\ startPB
  /\ Len(selectedLocs) = 3
  /\ Cardinality({k \in 1..3 : selectedLocs[k].island = HUB}) = 2
  /\ LET hubLocs == byIsland(selectedLocs, HUB)
     IN FiniteOr2(hubLocs[1].durationHrs) + FiniteOr2(hubLocs[2].durationHrs) <= 7

\* C7: for 2 locations on the hub A and 1 on another island B, start-at-hub
\* true, the generator returns [Arrival(A), Day(A), Ferry(A->B), Day(B),
\* Ferry(B->A), Departure(A)] and the itinerary holds exactly 2 ferry items.
C7_HubThenOneIsland ==
  (scheduled /\ twoOnHubOneElsewhere) =>
    LET B == (CHOOSE l \in Range(selectedLocs) : l.island # HUB).island IN
      /\ Len(days) = 6
      /\ isArrivalDay(days[1])
      /\ isVisitDay(days[2]) /\ days[2].island = HUB /\ stopCount(days[2]) = 2
      /\ isFerryFromTo(days[3], HUB, B)
      /\ isVisitDay(days[4]) /\ days[4].island = B /\ stopCount(days[4]) = 1
      /\ isFerryFromTo(days[5], B, HUB)
      /\ isDepartureDay(days[6])
      /\ ferryLegCount(days) = 2

\* five locations on one island, each 2 hours, each best in the afternoon
fiveAfternoonStops ==
  /\ Len(selectedLocs) = 5
  /\ \A k \in 1..5 :
       /\ selectedLocs[k].island = selectedLocs[1].island
       /\ selectedLocs[k].durationHrs = Num(2)
       /\ selectedLocs[k].bestTimes = <<"afternoon">>

visitDays == SelectSeq(days, isVisitDay)

\* C8 as claimed: 5 locations on one island, each 2 hours and "afternoon",
\* give exactly 3 days of location visits, each within the 4-stop and 7-hour
\* caps.
C8_FiveStopsThreeDays ==
  (scheduled /\ fiveAfternoonStops) =>
    /\ Len(visitDays) = 3
    /\ \A i \in 1..Len(visitDays) : stopCount(visitDays[i]) <= 4 /\ stopHours(visitDays[i]) <= 7

\* C8 as amended: 5 locations on one island, each 2 hours and "afternoon",
\* give exactly 2 days of location visits, the first with the first 3
\* locations and the second with the last 2, each within the 4-stop and
\* 7-hour caps.
C8_FiveStopsTwoDays ==
  (scheduled /\ fiveAfternoonStops) =>
    /\ Len(visitDays) = 2
    /\ [i \in 1..Len(visitDays[1].items) |-> visitDays[1].items[i].ref] = <<1, 2, 3>>
    /\ [i \in 1..Len(visitDays[2].items) |-> visitDays[2].items[i].ref] = <<4, 5>>
    /\ \A i \in 1..Len(visitDays) : stopCount(visitDays[i]) <= 4 /\ stopHours(visitDays[i]) <= 7

\* the five afternoon stops have been scheduled
C8_Witness == scheduled /\ fiveAfternoonStops /\ Len(days) = 3

(***************************************************************************)
(* Spec: the App component, from its first commit on                       *)
(***************************************************************************)
\* The catalog that /data/locations.json delivers.
Catalog ==
  <<[id |-> 1, island |-> "Port Blair", name |-> "Corbyn's Cove",
     durationHrs |-> Num(1), bestTimes |-> <<"afternoon">>],
    [id |-> 2, island |-> "Port Blair", name |-> "Cellular Jail",
     durationHrs |-> Num(3), bestTimes |-> <<"morning">>],
    [id |-> 3, island |-> "Havelock", name |-> "Radhanagar Beach",
     durationHrs |-> Num(2), bestTimes |-> <<"afternoon">>],
    [id |-> 4, island |-> "Neil", name |-> "Natural Bridge",
     durationHrs |-> Nullish, bestTimes |-> <<"evening">>]>>

\* The catalog that /data/activities.json delivers.
ActivityCatalog ==
  <<[id |-> "scuba", basePriceINR |-> Num(4500), price |-> Nullish, locationIds |-> <<3>>],
    [id |-> "kayak", basePriceINR |-> Nullish, price |-> Num(1500), locationIds |-> <<>>],
    [id |-> "lightshow", basePriceINR |-> Nullish, price |-> NotANumber, locationIds |-> <<2>>]>>

RESOURCES == {"locations", "activities", "ferries"}

\* what res.json() can resolve to: an array, null, or an object that is not
\* an array
JSON_KINDS == {"array", "null", "object"}

\* a parsed body that is an object and not an array
NonTabular == [error |-> "Not Found"]

\* json || []
orEmpty(kind, array) ==
  IF kind = "array" THEN array ELSE IF kind = "null" THEN <<>> ELSE NonTabular

NoHotels == [isl \in {} |-> ""]

\* the number the adults and infants inputs can deliver (0 for an emptied field)
INFANT_COUNTS == 0..1

\* useState initial values, and the first run of the days effect
Init ==
  /\ dataStatus = "loading"
  /\ fetches = [r \in RESOURCES |-> "pending"]
  /\ bodies = [r \in RESOURCES |-> "pending"]
  /\ mounted = TRUE
  /\ locations = <<>>
  /\ activities = <<>>
  /\ selectedIds = {}
  /\ startPB = TRUE
  /\ days = generateItineraryDays(<<>>, TRUE)
  /\ adults = 2
  /\ infants = 0
  /\ chosenHotels = NoHotels
  /\ essentials = [ferryClass |-> "Deluxe", cabModelId |-> CAB_MODELS[2].id]
  /\ scooterIslands = {}
  /\ addonIds = <<>>
  /\ memo = mount(costInputs)
  /\ edits = 0
  /\ priced = 0
  /\ discarded = FALSE

\* the render that follows a state change: the hooks of the cost model
rerender == memo' = render(memo, costInputs, costInputs')

\* a days effect that leaves a manually edited itinerary alone
regenerateKeepsEditedDays ==
  /\ days' = IF edits > 0 THEN days
             ELSE generateItineraryDays(SelectSeq(locations', LAMBDA l : l.id \in selectedIds'), startPB')
  /\ edits' = 0
  /\ discarded' = (edits > 0)

\* the days effect: it runs whenever selectedLocs or startPB changes
regenerate ==
  /\ days' = generateItineraryDays(SelectSeq(locations', LAMBDA l : l.id \in selectedIds'), startPB')
  /\ edits' = 0
  /\ discarded' = (edits > 0)

\* the catch branch of the load effect
LoadFails ==
  /\ dataStatus' = "error"
  /\ UNCHANGED <<mounted, catalogVars, tripVars, days, priceVars, memo, edits, priced, discarded>>

\* the tail of the try branch: the three setters, then setDataStatus("ready").
\* ferries is written here and read nowhere; it is left out of the state.
\* A body that is not an array makes the next render throw (locations.map,
\* activities.filter), which unmounts the component; whether its status cell
\* was written before that depends on whether the four updates are batched.
LoadSucceeds(json) ==
  /\ locations' = orEmpty(json["locations"], Catalog)
  /\ activities' = orEmpty(json["activities"], ActivityCatalog)
  /\ UNCHANGED <<tripVars, priceVars, priced>>
  /\ IF json["locations"] = "object" \/ json["activities"] = "object"
     THEN /\ mounted' = FALSE
          /\ dataStatus' \in {"loading", "ready"}
          /\ UNCHANGED <<days, memo, edits, discarded>>
     ELSE /\ mounted' = TRUE
          /\ dataStatus' = "ready"
          /\ regenerate
          /\ rerender

\* fetch(url) resolves with a response
FetchResolves(r) ==
  /\ mounted
  /\ dataStatus = "loading"
  /\ fetches[r] = "pending"
  /\ fetches' = [fetches EXCEPT ![r] = "resolved"]
  /\ UNCHANGED <<dataStatus, bodies, mounted, catalogVars, tripVars, days, priceVars,
                 memo, edits, priced, discarded>>

\* fetch(url) rejects: Promise.all rejects and the catch branch runs; what
\* the other two requests do afterwards reaches nobody
FetchRejects(r) ==
  /\ mounted
  /\ dataStatus = "loading"
  /\ fetches[r] = "pending"
  /\ fetches' = [fetches EXCEPT ![r] = "rejected"]
  /\ UNCHANGED bodies
  /\ LoadFails

\* res.json() resolves; the try branch goes on once all three have
ParseResolves(r, kind) ==
  /\ mounted
  /\ dataStatus = "loading"
  /\ \A q \in RESOURCES : fetches[q] = "resolved"
  /\ bodies[r] = "pending"
  /\ UNCHANGED fetches
  /\ LET json == [bodies EXCEPT ![r] = kind]
     IN IF \A q \in RESOURCES : json[q] \in JSON_KINDS
        THEN /\ bodies' = [q \in RESOURCES |-> "consumed"]
             /\ LoadSucceeds(json)
        ELSE /\ bodies' = json
             /\ UNCHANGED <<dataStatus, mounted, catalogVars, tripVars, days, priceVars,
                            memo, edits, priced, discarded>>

\* res.json() rejects: the body is not JSON
ParseRejects(r) ==
  /\ mounted
  /\ dataStatus = "loading"
  /\ \A q \in RESOURCES : fetches[q] = "resolved"
  /\ bodies[r] = "pending"
  /\ bodies' = [bodies EXCEPT ![r] = "rejected"]
  /\ UNCHANGED fetches
  /\ LoadFails

\* the page below the render guards is on screen
planning == mounted /\ dataStatus = "ready"

ToggleLocation(id) ==
  /\ planning
  /\ selectedIds' = IF id \in selectedIds THEN selectedIds \ {id} ELSE selectedIds \cup {id}
  /\ UNCHANGED <<dataStatus, loadVars, mounted, catalogVars, startPB, priceVars, priced>>
  /\ regenerate
  /\ rerender

SetStartPB ==
  /\ planning
  /\ startPB' = ~startPB
  /\ UNCHANGED <<dataStatus, loadVars, mounted, catalogVars, selectedIds, priceVars, priced>>
  /\ regenerate
  /\ rerender

\* the controls of a day are rendered unless the day holds a ferry or a departure
hasDayControls(day) == ~hasItem(day, "ferry") /\ ~hasItem(day, "departure")

canEdit == planning /\ edits + priced < MaxEdits

\* what a day editing helper leaves alone, and the render after setDays
afterSetDays ==
  /\ edits' = edits + 1
  /\ discarded' = FALSE
  /\ UNCHANGED <<dataStatus, loadVars, mounted, catalogVars, tripVars, priceVars, priced>>
  /\ rerender

\* "+ Add empty day after" of day index, or "+ Add another day" for the last day
AddEmptyDayAfter(index) ==
  /\ canEdit
  /\ Len(days) < MaxDays
  /\ hasDayControls(days[index + 1]) \/ index = Len(days) - 1
  /\ days' = addEmptyDayAfter(days, index)
  /\ afterSetDays

\* "Delete day", disabled while days.length <= 1
DeleteDay(index) ==
  /\ canEdit
  /\ hasDayControls(days[index + 1])
  /\ ~(Len(days) <= 1)
  /\ days' = deleteDay(days, index)
  /\ afterSetDays

MoveItem(fromDay, itemIdx, dir) ==
  /\ canEdit
  /\ days' = moveItem(days, fromDay, itemIdx, dir)
  /\ afterSetDays

SetTransportForDay(i, mode) ==
  /\ canEdit
  /\ hasDayControls(days[i + 1])
  /\ days' = setTransportForDay(days, i, mode)
  /\ afterSetDays

\* activities matched to the selection, or all of them when none matches
suggestedActivities ==
  LET matched == SelectSeq(activities,
                   LAMBDA a : \E k \in 1..Len(a.locationIds) : a.locationIds[k] \in selectedIds)
  IN IF matched # <<>> THEN matched ELSE activities

\* what a pricing event leaves alone, and the render after its setter
afterPricing ==
  /\ priced' = priced + 1
  /\ discarded' = FALSE
  /\ UNCHANGED <<dataStatus, loadVars, mounted, catalogVars, tripVars, days, edits>>
  /\ rerender

\* onChange of the adults input: setAdults(Number(e.target.value) || 0)
SetAdults(n) ==
  /\ canEdit
  /\ n # adults
  /\ adults' = n
  /\ UNCHANGED <<infants, chosenHotels, essentials, scooterIslands, addonIds>>
  /\ afterPricing

\* onChange of the infants input: setInfants(Number(e.target.value) || 0)
SetInfants(n) ==
  /\ canEdit
  /\ n # infants
  /\ infants' = n
  /\ UNCHANGED <<adults, chosenHotels, essentials, scooterIslands, addonIds>>
  /\ afterPricing

\* onChange of the ferry class select
SetFerryClass(class) ==
  /\ canEdit
  /\ class # essentials.ferryClass
  /\ essentials' = [essentials EXCEPT !.ferryClass = class]
  /\ UNCHANGED <<adults, infants, chosenHotels, scooterIslands, addonIds>>
  /\ afterPricing

\* onChange of the cab model select
SetCabModel(id) ==
  /\ canEdit
  /\ id # essentials.cabModelId
  /\ essentials' = [essentials EXCEPT !.cabModelId = id]
  /\ UNCHANGED <<adults, infants, chosenHotels, scooterIslands, addonIds>>
  /\ afterPricing

\* the scooter checkbox of an island of the itinerary
ToggleScooter(isl) ==
  /\ canEdit
  /\ \E i \in 1..Len(days) : days[i].island = isl
  /\ scooterIslands' = toggleScooter(scooterIslands, isl)
  /\ UNCHANGED <<adults, infants, chosenHotels, essentials, addonIds>>
  /\ afterPricing

\* the Select button of a hotel listed for an island that has nights
ChooseHotel(island, hotelId) ==
  /\ canEdit
  /\ island \in DOMAIN memo.nightsByIsland
  /\ island \in DOMAIN MOCK_HOTELS
  /\ \E k \in 1..Len(MOCK_HOTELS[island]) : MOCK_HOTELS[island][k].id = hotelId
  /\ chosenHotels' = chooseHotel(chosenHotels, island, hotelId)
  /\ UNCHANGED <<adults, infants, essentials, scooterIslands, addonIds>>
  /\ afterPricing

\* the Add / Added button of a suggested activity
ToggleAddon(id) ==
  /\ canEdit
  /\ \E k \in 1..Len(suggestedActivities) : suggestedActivities[k].id = id
  /\ addonIds' = toggleAddon(addonIds, id, \E k \in 1..Len(addonIds) : addonIds[k] = id)
  /\ UNCHANGED <<adults, infants, chosenHotels, essentials, scooterIslands>>
  /\ afterPricing

HOTEL_IDS ==
  {MOCK_HOTELS[isl][k].id : isl \in {"Port Blair", "Havelock", "Neil"}, k \in 1..2}

Next ==
  \/ \E r \in RESOURCES : FetchResolves(r)
  \/ \E r \in RESOURCES : FetchRejects(r)
  \/ \E r \in RESOURCES : \E kind \in JSON_KINDS : ParseResolves(r, kind)
  \/ \E r \in RESOURCES : ParseRejects(r)
  \/ \E id \in {Catalog[k].id : k \in 1..Len(Catalog)} : ToggleLocation(id)
  \/ SetStartPB
  \/ \E index \in 0..(Len(days) - 1) : AddEmptyDayAfter(index)
  \/ \E index \in 0..(Len(days) - 1) : DeleteDay(index)
  \/ \E fromDay \in 0..(Len(days) - 1) :
       \E itemIdx \in 0..(Len(days[fromDay + 1].items) - 1) :
         \E dir \in {-1, 1} : MoveItem(fromDay, itemIdx, dir)
  \/ \E i \in 0..(Len(days) - 1) : \E mode \in TRANSPORT_MODES : SetTransportForDay(i, mode)
  \/ \E n \in ADULT_COUNTS : SetAdults(n)
  \/ \E n \in INFANT_COUNTS : SetInfants(n)
  \/ \E class \in FERRY_CLASSES : SetFerryClass(class)
  \/ \E id \in CAB_MODEL_IDS : SetCabModel(id)
  \/ \E isl \in {days[i].island : i \in 1..Len(days)} : ToggleScooter(isl)
  \/ \E island \in DOMAIN memo.nightsByIsland : \E hotelId \in HOTEL_IDS : ChooseHotel(island, hotelId)
  \/ \E id \in {ActivityCatalog[k].id : k \in 1..Len(ActivityCatalog)} : ToggleAddon(id)

Spec == Init /\ [][Next]_vars

(***************************************************************************)
(* Properties of the day editing helpers (Spec)                            *)
(***************************************************************************)
isAnchorDay(day) == hasItem(day, "arrival") \/ hasItem(day, "departure")

\* C9: deleteDay applied to the index of the arrival day or of the departure
\* day, and setTransportForDay applied to either of them with any transport
\* mode, leave the whole itinerary unchanged.
C9_AnchorDaysProtected ==
  [][\A i \in 0..(Len(days) - 1) :
       isAnchorDay(days[i + 1]) =>
         /\ DeleteDay(i) => days' = days
         /\ \A mode \in TRANSPORT_MODES : SetTransportForDay(i, mode) => days' = days]_vars

\* C10: in every state reached from a scheduled itinerary by day editing, the
\* itinerary has at least 2 days.
C10_AtLeastTwoDays == dataStatus = "ready" => Len(days) >= 2

(***************************************************************************)
(* Properties of the itinerary under regeneration and day editing (Spec)   *)
(***************************************************************************)
\* C11: in every state reached by regenerations and day editing, the first
\* day is the arrival day at the hub, the last day is the departure day at
\* the hub, and two days that are not ferry days, lie on different islands
\* and have no other non-ferry day between them have exactly one ferry-only
\* day between them.
C11_AnchorsAndBridges ==
  dataStatus = "ready" =>
    /\ days # <<>>
    /\ isArrivalDay(days[1])
    /\ isDepartureDay(days[Len(days)])
    /\ \A i, j \in 1..Len(days) :
         ( /\ i < j
           /\ ~isFerryDay(days[i])
           /\ ~isFerryDay(days[j])
           /\ days[i].island # days[j].island
           /\ \A k \in (i + 1)..(j - 1) : isFerryDay(days[k]) )
         => (j = i + 2 /\ isFerryOnlyDay(days[i + 1]))

\* the itineraries one call of a day editing helper, at indices the page
\* offers, makes of ds
dayMutations(ds) ==
  LET idx == 0..(Len(ds) - 1) IN
    {addEmptyDayAfter(ds, i) : i \in idx}
    \cup {deleteDay(ds, i) : i \in idx}
    \cup UNION {{moveItem(ds, f, p, d) : p \in 0..(Len(ds[f + 1].items) - 1), d \in {-1, 1}} : f \in idx}
    \cup {setTransportForDay(ds, i, mode) : i \in idx, mode \in TRANSPORT_MODES}

\* C12: a step that changes the selection or the start-at-hub flag sets the
\* itinerary to the generator's output for the new selection and flag,
\* whatever manual edits the itinerary held; a step that changes neither
\* changes the itinerary only by one call of a day editing helper.
C12_RegeneratedOnSelectionChange ==
  [][ /\ (selectedIds' # selectedIds \/ startPB' # startPB)
          => days' = generateItineraryDays(selectedLocs', startPB')
      /\ (selectedIds' = selectedIds /\ startPB' = startPB /\ days' # days)
          => days' \in dayMutations(days) ]_vars

\* a change of the selection or the flag has just replaced a manually edited
\* itinerary
C12_Witness ==
  /\ discarded
  /\ selectedIds # {}
  /\ days = generateItineraryDays(selectedLocs, startPB)

(***************************************************************************)
(* Properties of the cost model (Spec)                                     *)
(***************************************************************************)
isDepartureOnlyDay(day) ==
  /\ hasItem(day, "departure")
  /\ \A i \in 1..Len(day.items) : day.items[i].type \in {"transfer", "departure"}

\* the days of ds on island isl that are neither ferry-only nor departure-only
nightsOn(ds, isl) ==
  Cardinality({i \in 1..Len(ds) :
                 ds[i].island = isl /\ ~isFerryOnlyDay(ds[i]) /\ ~isDepartureOnlyDay(ds[i])})

\* the nightly rate of hotel hid on island isl; 0 when isl lists no such hotel
nightlyRate(isl, hid) ==
  IF isl \notin DOMAIN MOCK_HOTELS THEN 0
  ELSE LET hs == MOCK_HOTELS[isl]
       IN IF \E k \in 1..Len(hs) : hs[k].id = hid
          THEN hs[CHOOSE k \in 1..Len(hs) : hs[k].id = hid].sell_price
          ELSE 0

\* maps of chosen hotels: any set of islands, each with a hotel id that its
\* island lists or does not list
HOTEL_MAPS ==
  UNION {[D -> {"pb_h1", "hl_h1", "nl_h1"}] : D \in SUBSET {"Port Blair", "Havelock", "Neil"}}

\* C13: for every reachable itinerary and every map of chosen hotels, the
\* accommodation subtotal is the sum over the islands of (days on the island
\* that are neither ferry-only nor departure-only) x (nightly rate of the
\* hotel chosen for the island), an island without a chosen hotel, or with a
\* hotel id its island does not list, adding 0.
C13_AccommodationSubtotal ==
  planning =>
    \A chosen \in HOTEL_MAPS \cup {chosenHotels} :
      hotelsTotal(days, chosen)
        = SumOver({days[i].island : i \in 1..Len(days)},
                  [isl \in {days[i].island : i \in 1..Len(days)} |->
                     IF isl \in DOMAIN chosen
                     THEN nightsOn(days, isl) * nightlyRate(isl, chosen[isl])
                     ELSE 0])

\* the ferry items of ds, each named by its day and its place in the day
ferryItems(ds) ==
  UNION {{<<i, k>> : k \in {j \in 1..Len(ds[i].items) : ds[i].items[j].type = "ferry"}} :
           i \in 1..Len(ds)}

\* 10 x (1500 x class multiplier), the multipliers being 1, 1.4 and 1.9
tenFares == [Economy |-> 15000, Deluxe |-> 21000, Luxury |-> 28500]

cabRates == [sedan |-> 2500, suv |-> 3200, innova |-> 3800, traveller |-> 5200]

\* the one charge of a day that is neither a ferry day nor departure-only
groundChargeOf(day, scooters, cab) ==
  CASE day.island \in scooters -> 800
    [] day.island \notin scooters /\ day.transport = "Day Cab" -> cabRates[cab]
    [] day.island \notin scooters /\ day.transport = "Scooter" -> 800
    [] OTHER -> IF stopCount(day) <= 1 THEN 500 ELSE (stopCount(day) - 1) * 500

\* the sum of the charges of the days that are neither ferry days nor
\* departure-only
groundSubtotal(ds, scooters, cab) ==
  LET charged == {i \in 1..Len(ds) : ~isFerryDay(ds[i]) /\ ~isDepartureOnlyDay(ds[i])}
  IN SumOver(charged, [i \in 1..Len(ds) |-> groundChargeOf(ds[i], scooters, cab)])

listedPrice == [scuba |-> 4500, kayak |-> 1500, lightshow |-> 0]

\* the price of id in the loaded catalog, 0 for an id the catalog lacks
priceOfId(id) ==
  IF \E k \in 1..Len(activities) : activities[k].id = id THEN listedPrice[id] ELSE 0

\* C16: in every reachable state no activity id is selected twice, and the
\* activities subtotal is the sum of the prices of the distinct selected ids,
\* an id that is not in the catalog counting 0; selecting one more activity,
\* in the catalog or not, never lowers the subtotal.
C16_ActivitiesSubtotal ==
  /\ [](planning =>
         /\ \A i, j \in 1..Len(addonIds) : addonIds[i] = addonIds[j] => i = j
         /\ memo.addonsTotal
              = SumOver(Range(addonIds), [id \in Range(addonIds) |-> priceOfId(id)])
         /\ addonsTotal(Append(addonIds, "ghost"), activities) = memo.addonsTotal
         /\ \A id \in DOMAIN listedPrice :
              addonsTotal(Append(addonIds, id), activities) >= memo.addonsTotal)
  /\ [][Len(addonIds') > Len(addonIds) => memo'.addonsTotal >= memo.addonsTotal]_vars

\* two activities have been selected, a priced one and the one without a
\* numeric price
C16_Witness ==
  /\ planning
  /\ Range(addonIds) = {"scuba", "lightshow"}
  /\ memo.addonsTotal = 4500

\* C17: in every reachable state the four subtotals the page shows are the
\* cost functions applied to the current itinerary and the current options,
\* and the grand total is accommodation + transit + ground transport +
\* activities.
C17_SubtotalsAreCurrent ==
  mounted =>
    /\ memo.hotelsTotal = hotelsTotal(days, chosenHotels)
    /\ memo.ferryTotal = ferryTotal(days, essentials.ferryClass, adults)
    /\ memo.logisticsTotal = logisticsTotal(days, scooterIslands, essentials.cabModelId)
    /\ memo.addonsTotal = addonsTotal(addonIds, activities)
    /\ memo.grandTotal
         = memo.hotelsTotal + memo.ferryTotal + memo.logisticsTotal + memo.addonsTotal

\* a selection with a ferry has been made, its itinerary edited by hand and
\* the adult count changed
C17_Witness ==
  /\ planning
  /\ edits >= 1
  /\ adults = 3
  /\ memo.ferryTotal > 0
  /\ memo.logisticsTotal > 0

(***************************************************************************)
(* Properties of the catalog load (Spec)                                   *)
(***************************************************************************)
\* the bodies of the three responses once ParseResolves(r, kind) has run
bodiesAfter(r, kind) == [bodies EXCEPT ![r] = kind]

\* the status starts at loading
C18_StartsLoading == dataStatus = "loading"

\* the status becomes ready only from loading, by the step that parses the
\* last of three bodies, all three fetches having resolved
C18_ReadyOnlyAfterAll ==
  (dataStatus # "ready" /\ dataStatus' = "ready") =>
    /\ dataStatus = "loading"
    /\ \A q \in RESOURCES : fetches[q] = "resolved"
    /\ \E r \in RESOURCES :
         /\ bodies[r] = "pending"
         /\ \A q \in RESOURCES \ {r} : bodies[q] \in JSON_KINDS

\* a rejected fetch or parse sets the status to error
C18_FailureIsError ==
  \A r \in RESOURCES : (FetchRejects(r) \/ ParseRejects(r)) => dataStatus' = "error"

\* the step that parses the last body sets the status to error when one of
\* the three bodies is not an array
C18_NonTabularIsError ==
  \A r \in RESOURCES, kind \in JSON_KINDS :
    ( /\ ParseResolves(r, kind)
      /\ \A q \in RESOURCES : bodiesAfter(r, kind)[q] \in JSON_KINDS
      /\ \E q \in RESOURCES : bodiesAfter(r, kind)[q] # "array" )
    => dataStatus' = "error"

\* error and ready are left by no step
C18_Terminal ==
  dataStatus \in {"ready", "error"} => dataStatus' = dataStatus /\ locations' = locations
                                         /\ activities' = activities

\* the selection, the itinerary editing and the pricing controls act only
\* while the status is ready
C18_NothingExposedUnlessReady ==
  (tripVars' # tripVars \/ priceVars' # priceVars \/ edits' > edits) => dataStatus = "ready"

\* C18: the load status starts at loading; it becomes ready only after all
\* three fetches and all three parses have succeeded; a fetch or parse that
\* fails, or a body that is not tabular, makes it error; error and ready are
\* terminal; and itinerary and costs are on screen only while it is ready.
C18_CatalogLoad ==
  /\ C18_StartsLoading
  /\ [][ /\ C18_ReadyOnlyAfterAll
         /\ C18_FailureIsError
         /\ C18_NonTabularIsError
         /\ C18_Terminal
         /\ C18_NothingExposedUnlessReady ]_vars

(***************************************************************************)
(* Properties of the day editing helpers on indices out of range (Spec)    *)
(***************************************************************************)
\* day indices, 0-based, on both sides of the itinerary ds
nearIndices(ds) == (0 - Len(ds) - 1)..(Len(ds) + 1)

inRange(ds, i) == i >= 0 /\ i < Len(ds)

\* deleteDay at an index that is no index of the itinerary changes nothing
C19_DeleteOutOfRange ==
  \A i \in nearIndices(days) : ~inRange(days, i) => deleteDay(days, i) = days

\* setTransportForDay at an index that is no index of the itinerary changes
\* nothing
C19_TransportOutOfRange ==
  \A i \in nearIndices(days), mode \in TRANSPORT_MODES :
    ~inRange(days, i) => setTransportForDay(days, i, mode) = days

\* moveItem from or to a day that is no index of the itinerary, or of an
\* item position the day does not have, changes nothing and does not throw
C19_MoveOutOfRange ==
  \A f \in nearIndices(days), d \in {-1, 1} :
    /\ (~inRange(days, f) \/ ~inRange(days, f + d)) =>
         \A p \in -1..1 : moveItem(days, f, p, d) = days
    /\ inRange(days, f) =>
         \A p \in {-1, Len(days[f + 1].items)} : moveItem(days, f, p, d) = days

\* C19: for every reachable itinerary, deleteDay(i) and setTransportForDay(i,
\* mode) with i outside 0..length-1, and moveItem(f, p, d) with f or f + d
\* outside 0..length-1 or p outside the items of day f, leave the itinerary
\* unchanged and throw nothing.
C19_OutOfRangeIsNoOp ==
  planning => (C19_DeleteOutOfRange /\ C19_TransportOutOfRange /\ C19_MoveOutOfRange)

(***************************************************************************)
(* Properties of the single-stop lookahead (SchedSpec)                     *)
(***************************************************************************)
\* day i is a day of location visits with a later such day on its island
hasLaterVisitDay(i) ==
  \E j \in (i + 1)..Len(days) : isVisitDay(days[j]) /\ days[j].island = days[i].island

\* the stops the bucket of day i held when flushDay was called for it
stopsAtClose(i) == stopCount(days[i]) - (IF pulledDays[i] THEN 1 ELSE 0)

\* C20: a bucket that holds exactly one stop when it is closed, while a
\* location of its island is not yet in a closed day, gets one more location
\* before it is closed; so a generated day of location visits has exactly one
\* stop only if it is the last day of its island.
C20_SingleStopLookahead ==
  scheduled =>
    \A i \in 1..Len(days) :
      isVisitDay(days[i]) =>
        /\ (stopsAtClose(i) = 1 /\ hasLaterVisitDay(i)) => pulledDays[i]
        /\ stopCount(days[i]) = 1 => ~hasLaterVisitDay(i)

(***************************************************************************)
(* Properties of moveItem (Spec)                                           *)
(***************************************************************************)
\* how many times the item it occurs in the itinerary ds
itemCount(ds, it) ==
  SumOver(1..Len(ds),
          [k \in 1..Len(ds) |-> Cardinality({i \in 1..Len(ds[k].items) : ds[k].items[i] = it})])

itemsOf(ds) == UNION {Range(ds[k].items) : k \in 1..Len(ds)}

\* the items of a day without the one at the 0-based position p
withoutPosition(items, p) ==
  [i \in 1..(Len(items) - 1) |-> IF i <= p THEN items[i] ELSE items[i + 1]]

\* after is before with the item at position p of day f removed and appended
\* to day f + d, and nothing else changed
movedExactly(before, after, f, p, d) ==
  /\ Len(after) = Len(before)
  /\ \A k \in 1..Len(before) :
       /\ after[k].island = before[k].island
       /\ after[k].transport = before[k].transport
       /\ k = f + 1 => after[k].items = withoutPosition(before[k].items, p)
       /\ k = f + d + 1 => after[k].items = before[k].items \o <<before[f + 1].items[p + 1]>>
       /\ k \notin {f + 1, f + d + 1} => after[k].items = before[k].items
  /\ \A it \in itemsOf(before) \cup itemsOf(after) : itemCount(after, it) = itemCount(before, it)

\* C21: a step moveItem(f, p, d) with d = -1 or +1, f a day and p a position
\* of day f removes the item at position p of day f and appends it as the
\* last item of day f + d when f + d is a day, leaving the number of days,
\* every island and transport, every other item, the order of the remaining
\* items and the multiset of all items as they were; it leaves the itinerary
\* unchanged when f + d is no day.
C21_MoveItemEffect ==
  [][ \A f \in 0..(Len(days) - 1) :
        \A p \in 0..(Len(days[f + 1].items) - 1) :
          \A d \in {-1, 1} :
            MoveItem(f, p, d) =>
              IF inRange(days, f + d) THEN movedExactly(days, days', f, p, d)
              ELSE days' = days ]_vars

\* a location visit has been moved to the end of the arrival day, and the
\* itinerary still has a day from which the first direction is out of bounds
C21_Witness ==
  /\ planning
  /\ edits > 0
  /\ Len(days) >= 2
  /\ Len(days[1].items) = 3
  /\ days[1].items[3].type = "location"

(***************************************************************************)
(* Properties of the island visiting order (SchedSpec)                     *)
(***************************************************************************)
selectedIslands == {selectedLocs[k].island : k \in 1..Len(selectedLocs)}

isCanonical(island) == canonicalIndex(island) >= 0

\* the islands of the generated days after the arrival day, each once, in the
\* order in which the itinerary reaches them
visitedOrder == Distinct([i \in 1..(Len(days) - 1) |-> days[i + 1].island])

unknownIslands ==
  SelectSeq(byIslandKeys(selectedLocs), LAMBDA a : ~isCanonical(a))

\* C23: in the island order the scheduler uses, every selected island that
\* is not in the canonical list stands after every selected island that is
\* (the hub put first by start-at-hub aside), and the islands not in the list
\* keep the order of their first occurrence in the selection.
C23_UnknownIslandsLast ==
  scheduled =>
    LET order == islandOrder(selectedLocs, startPB)
        hubFirst(i) == startPB /\ i = 1 /\ order[i] = HUB
    IN /\ \A i, j \in 1..Len(order) :
            (isCanonical(order[i]) /\ ~isCanonical(order[j]) /\ ~hubFirst(i)) => i < j
       /\ SelectSeq(order, LAMBDA a : ~isCanonical(a)) = unknownIslands

\* C24: with start-at-hub set and a selection that is not empty and holds no
\* location on the hub, the island order the scheduler uses starts with the
\* hub, and the itinerary holds a ferry day from the hub to the first
\* selected island.
C24_HubInjected ==
  (scheduled /\ startPB /\ selectedLocs # <<>> /\ HUB \notin selectedIslands) =>
    /\ islandOrder(selectedLocs, startPB)[1] = HUB
    /\ \E i \in 1..Len(days) : \E to \in selectedIslands : isFerryFromTo(days[i], HUB, to)

(***************************************************************************)
(* Properties of the transport of generated days (SchedSpec)               *)
(***************************************************************************)
\* C25: every generated day of location visits has transport Day Cab if it
\* holds 3 or more stops, otherwise Scooter if its island is Havelock or
\* Neil, otherwise Point-to-Point; every generated ferry day holds exactly
\* one item, a ferry item naming the island it leaves and the island of the
\* next day, and has transport "-".
C25_DerivedTransport ==
  scheduled =>
    \A i \in 1..Len(days) :
      /\ isVisitDay(days[i]) =>
           days[i].transport =
             (IF stopCount(days[i]) >= 3 THEN "Day Cab"
              ELSE IF days[i].island \in {"Havelock", "Neil"} THEN "Scooter"
              ELSE "Point-to-Point")
      /\ isFerryDay(days[i]) =>
           /\ i > 1 /\ i < Len(days)
           /\ isVisitDay(days[i - 1])
           /\ isFerryFromTo(days[i], days[i - 1].island, days[i + 1].island)
           /\ days[i].island = days[i - 1].island
           /\ days[i - 1].island # days[i + 1].island
           /\ days[i].transport = "-"

\* an itinerary with a three-stop day on a scooter-friendly island, a
\* shorter day on one, a shorter day elsewhere, and a ferry day
C25_Witness ==
  /\ scheduled
  /\ \E i \in 1..Len(days) :
       isVisitDay(days[i]) /\ stopCount(days[i]) >= 3 /\ days[i].island \in SCOOTER_FRIENDLY
  /\ \E i \in 1..Len(days) :
       isVisitDay(days[i]) /\ stopCount(days[i]) < 3 /\ days[i].island \in SCOOTER_FRIENDLY
  /\ \E i \in 1..Len(days) :
       isVisitDay(days[i]) /\ stopCount(days[i]) < 3 /\ days[i].island \notin SCOOTER_FRIENDLY
  /\ \E i \in 1..Len(days) : isFerryDay(days[i])

(***************************************************************************)
(* Properties of the placement of locations (SchedSpec)                    *)
(***************************************************************************)
\* the positions <<day, item>> of the location items that refer to id
placesOf(id) ==
  {<<i, k>> \in UNION {{<<i, k>> : k \in 1..Len(days[i].items)} : i \in 1..Len(days)} :
     days[i].items[k].type = "location" /\ days[i].items[k].ref = id}

\* C27: every selected location is a location item of exactly one generated
\* day at exactly one position, that day lies on the location's island, and
\* no generated location item refers to a location that is not selected.
C27_EachLocationOnce ==
  scheduled =>
    /\ \A n \in 1..Len(selectedLocs) :
         /\ Cardinality(placesOf(selectedLocs[n].id)) = 1
         /\ \A pl \in placesOf(selectedLocs[n].id) :
              /\ days[pl[1]].island = selectedLocs[n].island
              /\ days[pl[1]].items[pl[2]].name = selectedLocs[n].name
    /\ \A i \in 1..Len(days) : \A k \in 1..Len(days[i].items) :
         days[i].items[k].type = "location" => days[i].items[k].ref \in selectedIds

\* an island with a day that got a lookahead stop and a later day of visits
C27_Witness ==
  /\ scheduled
  /\ Len(selectedLocs) >= 4
  /\ \E i \in 1..Len(days) : pulledDays[i] /\ hasLaterVisitDay(i)

\* the refs of the location items of the days on island, days in order and
\* the items of each day in order
refsInItinerary(island) ==
  LET onIsland == SelectSeq(days, LAMBDA day : day.island = island /\ isVisitDay(day))
      RECURSIVE refsFrom(_)
      refsFrom(k) ==
        IF k > Len(onIsland) THEN <<>>
        ELSE [i \in 1..Len(onIsland[k].items) |-> onIsland[k].items[i].ref] \o refsFrom(k + 1)
  IN refsFrom(1)

\* the ids of the island's selected locations in the order of orderByBestTime
refsByBestTime(island) ==
  LET locs == orderByBestTime(byIsland(selectedLocs, island))
  IN [i \in 1..Len(locs) |-> locs[i].id]

\* C28: for every island, the generated days of the island read in order,
\* and the items of each day in order, give the island's selected locations
\* in the order of orderByBestTime; the lookahead puts no later location
\* ahead of an earlier one.
C28_BestTimeOrderKept ==
  scheduled =>
    \A island \in selectedIslands : refsInItinerary(island) = refsByBestTime(island)

(***************************************************************************)
(* Properties of the recorded durations (SchedSpec)                        *)
(***************************************************************************)
\* C29: the duration recorded on every generated location item is the
\* duration the scheduler counted against the day's budget for the location:
\* the catalog duration when it is a finite number, and 2 hours when it is
\* missing, null or NaN.
C29_RecordedIsCounted ==
  scheduled =>
    \A i \in 1..Len(days) : \A k \in 1..Len(days[i].items) :
      days[i].items[k].type = "location" =>
        \A n \in 1..Len(selectedLocs) :
          selectedLocs[n].id = days[i].items[k].ref =>
            days[i].items[k].durationHrs = Num(FiniteOr2(selectedLocs[n].durationHrs))

(***************************************************************************)
(* Properties of the start-at-hub flag (SchedSpec)                         *)
(***************************************************************************)
\* the flag changes the itinerary generated for the selection
flagMatters ==
  generateItineraryDays(selectedLocs, TRUE) # generateItineraryDays(selectedLocs, FALSE)

\* C30: when every selected island is in the canonical list, the itinerary
\* generated with start-at-hub set is the one generated with it unset; the
\* two differ only when an island outside the list is selected together with
\* the hub.
C30_FlagOnlyMattersWithUnknownIsland ==
  scheduled =>
    /\ (\A a \in selectedIslands : isCanonical(a)) => ~flagMatters
    /\ flagMatters => (HUB \in selectedIslands /\ \E a \in selectedIslands : ~isCanonical(a))

\* the hub selected after another canonical island with the flag unset, where
\* only the sort puts the hub first
C30_Witness ==
  /\ scheduled
  /\ ~startPB
  /\ Len(selectedLocs) >= 2
  /\ \A a \in selectedIslands : isCanonical(a)
  /\ selectedLocs[1].island # HUB
  /\ HUB \in selectedIslands
  /\ days[2].island = HUB

(***************************************************************************)
(* Mood inference and the selection list                                   *)
(***************************************************************************)
\* a finite durationHrs of n and a half hours
Half(n) == [kind |-> "half", val |-> n]

\* the free texts of the catalog records the selection list is drawn from
\* below, each with the characters of its lower-case form
LowerCaseOf ==
     "" :> <<>>
  @@ "Beach" :> <<"b", "e", "a", "c", "h">>
  @@ "Snorkeling" :> <<"s", "n", "o", "r", "k", "e", "l", "i", "n", "g">>
  @@ "Culture" :> <<"c", "u", "l", "t", "u", "r", "e">>
  @@ "Mangrove" :> <<"m", "a", "n", "g", "r", "o", "v", "e">>
  @@ "Shopping" :> <<"s", "h", "o", "p", "p", "i", "n", "g">>
  @@ "Corbyn's Cove" :> <<"c", "o", "r", "b", "y", "n", "'", "s", " ", "c", "o", "v", "e">>
  @@ "Ross Island" :> <<"r", "o", "s", "s", " ", "i", "s", "l", "a", "n", "d">>
  @@ "Veer Savarkar Airport" :> <<"v", "e", "e", "r", " ", "s", "a", "v", "a", "r", "k", "a", "r", " ", "a", "i", "r", "p", "o", "r", "t">>

\* String.prototype.toLowerCase, as the characters of the result
toLowerCase(s) == LowerCaseOf[s]

\* text holds word as a substring
includes(text, word) ==
  \E i \in 1..(Len(text) - Len(word) + 1) : SubSeq(text, i, i + Len(word) - 1) = word

\* /w1|w2|.../.test(text)
test(words, text) == \E word \in words : includes(text, word)

\* /snorkel|scuba|dive|trek|kayak|surf|jet|parasail/
ADVENTURE_WORDS ==
  { <<"s", "n", "o", "r", "k", "e", "l">>,
    <<"s", "c", "u", "b", "a">>,
    <<"d", "i", "v", "e">>,
    <<"t", "r", "e", "k">>,
    <<"k", "a", "y", "a", "k">>,
    <<"s", "u", "r", "f">>,
    <<"j", "e", "t">>,
    <<"p", "a", "r", "a", "s", "a", "i", "l">> }

\* /beach|sunset|view|cove|lagoon|mangrove/
RELAXED_WORDS ==
  { <<"b", "e", "a", "c", "h">>,
    <<"s", "u", "n", "s", "e", "t">>,
    <<"v", "i", "e", "w">>,
    <<"c", "o", "v", "e">>,
    <<"l", "a", "g", "o", "o", "n">>,
    <<"m", "a", "n", "g", "r", "o", "v", "e">> }

\* /museum|culture|heritage|jail|cellular|memorial/
FAMILY_WORDS ==
  { <<"m", "u", "s", "e", "u", "m">>,
    <<"c", "u", "l", "t", "u", "r", "e">>,
    <<"h", "e", "r", "i", "t", "a", "g", "e">>,
    <<"j", "a", "i", "l">>,
    <<"c", "e", "l", "l", "u", "l", "a", "r">>,
    <<"m", "e", "m", "o", "r", "i", "a", "l">> }

\* /wildlife|reef|coral|mangrove|bird|nature|peak/
PHOTOGRAPHY_WORDS ==
  { <<"w", "i", "l", "d", "l", "i", "f", "e">>,
    <<"r", "e", "e", "f">>,
    <<"c", "o", "r", "a", "l">>,
    <<"m", "a", "n", "g", "r", "o", "v", "e">>,
    <<"b", "i", "r", "d">>,
    <<"n", "a", "t", "u", "r", "e">>,
    <<"p", "e", "a", "k">> }

\* /lighthouse|mangrove|cave|long island|mud volcano|baratang|ross|smith|saddle peak/
OFFBEAT_WORDS ==
  { <<"l", "i", "g", "h", "t", "h", "o", "u", "s", "e">>,
    <<"m", "a", "n", "g", "r", "o", "v", "e">>,
    <<"c", "a", "v", "e">>,
    <<"l", "o", "n", "g", " ", "i", "s", "l", "a", "n", "d">>,
    <<"m", "u", "d", " ", "v", "o", "l", "c", "a", "n", "o">>,
    <<"b", "a", "r", "a", "t", "a", "n", "g">>,
    <<"r", "o", "s", "s">>,
    <<"s", "m", "i", "t", "h">>,
    <<"s", "a", "d", "d", "l", "e", " ", "p", "e", "a", "k">> }

\* /airport/i, applied to the lower-case form
AIRPORT_WORDS ==
  { <<"a", "i", "r", "p", "o", "r", "t">> }
\* loc.interest || ""
interestOf(loc) == IF "interest" \in DOMAIN loc THEN loc.interest ELSE ""

\* loc.name || ""
nameOf(loc) == IF "name" \in DOMAIN loc THEN loc.name ELSE ""

\* Number.isFinite(d) ? d : 2, in half hours
FiniteOr2InHalves(d) ==
  IF d.kind = "num" THEN 2 * d.val
  ELSE IF d.kind = "half" THEN 2 * d.val + 1
  ELSE 2 * DEFAULT_DURATION

\* moods.add(tag) when cond holds; the set keeps its elements in the order
\* in which they were first added
addIf(moods, cond, tag) ==
  IF cond /\ tag \notin Range(moods) THEN Append(moods, tag) ELSE moods

\* inferMoods without its safe default
inferMoodsNoDefault(loc) ==
  LET interest == toLowerCase(interestOf(loc))
      name == toLowerCase(nameOf(loc))
      dur == FiniteOr2InHalves(loc.durationHrs)
      m1 == addIf(<<>>, dur <= 4, "Relaxed")
      m2 == addIf(m1, dur >= 6, "Balanced")
      m3 == addIf(m2, dur >= 8, "Active")
      m4 == addIf(m3, test(ADVENTURE_WORDS, interest), "Adventure")
      m5 == addIf(m4, test(RELAXED_WORDS, interest), "Relaxed")
      m6 == addIf(m5, test(FAMILY_WORDS, interest), "Family")
      m7 == addIf(m6, test(PHOTOGRAPHY_WORDS, interest), "Photography")
  IN addIf(m7, test(OFFBEAT_WORDS, name), "Offbeat")

\* Array.from(moods) of inferMoods
inferMoods(loc) ==
  LET interest == toLowerCase(interestOf(loc))
      name == toLowerCase(nameOf(loc))
      dur == FiniteOr2InHalves(loc.durationHrs)
      m1 == addIf(<<>>, dur <= 4, "Relaxed")
      m2 == addIf(m1, dur >= 6, "Balanced")
      m3 == addIf(m2, dur >= 8, "Active")
      m4 == addIf(m3, test(ADVENTURE_WORDS, interest), "Adventure")
      m5 == addIf(m4, test(RELAXED_WORDS, interest), "Relaxed")
      m6 == addIf(m5, test(FAMILY_WORDS, interest), "Family")
      m7 == addIf(m6, test(PHOTOGRAPHY_WORDS, interest), "Photography")
      m8 == addIf(m7, test(OFFBEAT_WORDS, name), "Offbeat")
  IN addIf(m8, Len(m8) = 0, "Balanced")

\* locations.filter((l) => !/airport/i.test(l.name || ""))
selectableLocations(locs) ==
  SelectSeq(locs, LAMBDA l : ~test(AIRPORT_WORDS, toLowerCase(nameOf(l))))

\* Array.isArray(l.moods) && l.moods.length ? l.moods : inferMoods(l)
moodsOrInferred(l) ==
  IF "moods" \in DOMAIN l /\ Len(l.moods) # 0 THEN l.moods ELSE inferMoods(l)

\* {...l, moods: ...}
withMoods(l) ==
  [f \in DOMAIN l \cup {"moods"} |-> IF f = "moods" THEN moodsOrInferred(l) ELSE l[f]]

\* selectableLocations.map((l) => ({...l, moods: ...}))
selectableWithMoods(selectable) == [i \in 1..Len(selectable) |-> withMoods(selectable[i])]

(***************************************************************************)
(* MoodSpec: the selection list of every catalog of one record             *)
(***************************************************************************)
MOOD_DURATIONS ==
  {Num(0), Num(1), Num(2), Half(2), Num(3), Half(3), Num(4), Num(5), Nullish, NotANumber}

MOOD_INTERESTS == {"Beach", "Snorkeling", "Culture", "Mangrove", "Shopping"}

MOOD_NAMES == {"Corbyn's Cove", "Ross Island", "Veer Savarkar Airport"}

\* the explicit mood tags a record may come with
MOOD_TAGS_GIVEN == {<<>>, <<"Romantic">>}

\* the records: interest and moods are optional fields
MoodRecords ==
  LET base == {[id |-> 1, island |-> HUB, name |-> n, durationHrs |-> d, bestTimes |-> <<>>] :
                 n \in MOOD_NAMES, d \in MOOD_DURATIONS}
      withInterest == base \cup {b @@ [interest |-> t] : b \in base, t \in MOOD_INTERESTS}
  IN withInterest \cup {b @@ [moods |-> g] : b \in withInterest, g \in MOOD_TAGS_GIVEN}

\* the page right after the load has set a catalog of one record: the hooks
\* of the selection list still hold the lists of the render before
MoodInit ==
  /\ dataStatus = "ready"
  /\ fetches = <<>>
  /\ bodies = <<>>
  /\ mounted = TRUE
  /\ \E l \in MoodRecords : locations = <<l>>
  /\ activities = <<>>
  /\ selectedIds = {}
  /\ startPB = TRUE
  /\ days = <<ArrivalDay>>
  /\ adults = 2
  /\ infants = 0
  /\ chosenHotels = <<>>
  /\ essentials = [ferryClass |-> "Deluxe", cabModelId |-> "suv"]
  /\ scooterIslands = {}
  /\ addonIds = <<>>
  /\ memo = [selectableLocations |-> <<>>, selectableWithMoods |-> <<>>]
  /\ edits = 0
  /\ priced = 0
  /\ discarded = FALSE

\* the render after setLocations: both hooks depend on locations
MoodRender ==
  /\ memo.selectableLocations # selectableLocations(locations)
  /\ memo' = [selectableLocations |-> selectableLocations(locations),
              selectableWithMoods |-> selectableWithMoods(selectableLocations(locations))]
  /\ UNCHANGED <<dataStatus, loadVars, mounted, catalogVars, tripVars, days, priceVars,
                 edits, priced, discarded>>

MoodNext == MoodRender

MoodSpec == MoodInit /\ [][MoodNext]_vars

(***************************************************************************)
(* Properties of mood inference (MoodSpec)                                 *)
(***************************************************************************)
MOOD_VOCABULARY ==
  {"Relaxed", "Balanced", "Active", "Adventure", "Family", "Photography", "Offbeat"}

\* a keyword rule of inferMoods fires for the record
keywordRuleFires(l) ==
  \/ test(ADVENTURE_WORDS \cup RELAXED_WORDS \cup FAMILY_WORDS \cup PHOTOGRAPHY_WORDS,
          toLowerCase(interestOf(l)))
  \/ test(OFFBEAT_WORDS, toLowerCase(nameOf(l)))

\* the duration of the record is at most, or at least, n hours, a missing or
\* non-finite duration counting as 2 hours
atMostHours(l, n) ==
  CASE l.durationHrs.kind = "num" -> l.durationHrs.val <= n
    [] l.durationHrs.kind = "half" -> l.durationHrs.val < n
    [] OTHER -> 2 <= n

atLeastHours(l, n) ==
  CASE l.durationHrs.kind = "num" -> l.durationHrs.val >= n
    [] l.durationHrs.kind = "half" -> l.durationHrs.val >= n
    [] OTHER -> 2 >= n

\* the record came without mood tags, so that its tags are inferred
inferred(l) == "moods" \notin DOMAIN l \/ l.moods = <<>>

\* C26: for every record of the selection list whose tags are inferred, the
\* tags are a non-empty set of the vocabulary, without repetition; they
\* include Relaxed when the duration is at most 2 hours, Balanced when it is
\* at least 3 hours and Active when it is at least 4 hours, a missing or
\* non-finite duration counting as 2 hours; and they are exactly Balanced
\* when no duration rule and no keyword rule fires.
C26_InferredMoods ==
  \A i \in 1..Len(memo.selectableWithMoods) :
    LET e == memo.selectableWithMoods[i]
        l == CHOOSE l \in Range(locations) : l.id = e.id
        tags == Range(e.moods)
    IN inferred(l) =>
         /\ tags # {}
         /\ tags \subseteq MOOD_VOCABULARY
         /\ Cardinality(tags) = Len(e.moods)
         /\ atMostHours(l, 2) => "Relaxed" \in tags
         /\ atLeastHours(l, 3) => "Balanced" \in tags
         /\ atLeastHours(l, 4) => "Active" \in tags
         /\ (~atMostHours(l, 2) /\ ~atLeastHours(l, 3) /\ ~keywordRuleFires(l))
              => e.moods = <<"Balanced">>

\* a record of two and a half hours without any keyword has got its tags
C26_Witness ==
  /\ Len(memo.selectableWithMoods) = 1
  /\ locations[1].durationHrs = Half(2)
  /\ inferred(locations[1])
  /\ ~keywordRuleFires(locations[1])
  /\ memo.selectableWithMoods[1].moods = <<"Balanced">>

=============================================================================
